---- MODULE Spec2Model ----
(***************************************************************************)
(* State-machine model of the feature store core:                          *)
(*   - FileOfflineStore.get_historical_features and its lazy evaluation    *)
(*     function, FileOfflineStore.pull_latest_from_table_or_query and      *)
(*     FileRetrievalJob (sdk/python/feast/infra/offline_stores/file.py),   *)
(*   - AwsDynamoProvider.online_write_batch / online_read /                *)
(*     materialize_single_feature_view                                     *)
(*     (sdk/python/feast/infra/aws_dynamo_provider.py).                    *)
(* Timestamps are integers (UTC instants); a dataframe is a sequence of    *)
(* records, one field per column.                                          *)
(***************************************************************************)
EXTENDS Integers, Sequences, FiniteSets, TLC

\* ------------------------------------------------------------------ bounds
MaxTs == 1
MaxSpine == 2
MaxIntervals == 2

Times == 0..MaxTs
\* feature_view.ttl as a number of time units
Ttls == 0..MaxTs
\* values of the join-key column, of the created-timestamp column and of the
\* feature column
Keys == {"k1", "k2"}
CreatedTimes == {1, 2}
FeatureVals == {"a", "b"}

RECURSIVE SeqsUpTo(_, _)
SeqsUpTo(S, n) ==
  IF n = 0 THEN {<<>>}
  ELSE LET shorter == SeqsUpTo(S, n - 1)
       IN  shorter \cup {Append(s, x) : s \in {t \in shorter : Len(t) = n - 1}, x \in S}

\* start_date and end_date of a materialization run or of a pull
WindowTimes == 0..(MaxTs + 1)
Windows == {w \in WindowTimes \X WindowTimes : w[1] < w[2]}

\* rows of the entity dataframe: the join-key column and the request timestamp
SpineRows == [join_key : Keys, event_timestamp : Times]
\* rows of the feature view's batch source (the parquet file)
SourceRows == [join_key : Keys, ts : Times, created : CreatedTimes, feature : FeatureVals]
\* the contents of the batch source: up to two rows, in any order
SourceContents == SeqsUpTo(SourceRows, 2)

VARIABLES
  source,      \* content of feature_view.batch_source.path
  ttl,         \* feature_view.ttl
  entity_df,   \* the entity dataframe given to get_historical_features
  job,         \* the FileRetrievalJob: "none" | "built" | "evaluated" (its latest
               \* consumption returned) | "raised" | "discarded"
  candidates,  \* df_to_join as persisted after the timestamp filter
  result,      \* the dataframe the evaluation function returned
  plan,        \* what the job's evaluation function closes over
  calls,       \* counts of the job's consumptions (to_df, to_arrow, persist), of
               \* the runs of its evaluation function and of the reads of a source
  online_store,  \* the items of the DynamoDB table named after the feature view
  outcome,       \* what the latest call of a store or of a job returned or raised
  last_written,  \* per (project, entity key), the row last written with success
  materialization_intervals,  \* feature_view.materialization_intervals
  registry,      \* the interval list the registry holds for the feature view
  pc,            \* per run of materialize_single_feature_view, the step it is at
  window,        \* per run, its (start_date, end_date)
  table,         \* per run, the pulled table, then the rows to write
  before,        \* per run, what the call found as it began: the interval list, the
                 \* registry, and whether the run's previous call completed over
                 \* the same window
  trail,         \* per run, the steps the call has completed, in order
  overlapped     \* per run, whether its call ran while a call of the other run did

histVars == <<source, ttl, entity_df, job, candidates, result, plan, calls>>
onlineVars == <<online_store, outcome, last_written>>
matVars == <<materialization_intervals, registry, pc, window, table, before, trail,
            overlapped>>
vars == <<source, ttl, entity_df, job, candidates, result, plan, calls,
          online_store, outcome, last_written,
          materialization_intervals, registry, pc, window, table, before, trail,
          overlapped>>

\* ------------------------------------------------------- dataframe helpers
Range(s) == {s[i] : i \in 1..Len(s)}

Min(S) == CHOOSE x \in S : \A y \in S : x <= y

\* the rows of df at the positions idx, in df's order
RECURSIVE Take(_, _)
Take(df, idx) ==
  IF idx = {} THEN <<>>
  ELSE LET i == Min(idx) IN <<df[i]>> \o Take(df, idx \ {i})

\* the positions S in ascending order of key[i]; positions with equal keys keep
\* their order
RECURSIVE StableOrder(_, _)
StableOrder(S, key) ==
  IF S = {} THEN <<>>
  ELSE LET m == Min({key[i] : i \in S})
           i == Min({j \in S : key[j] = m})
       IN  <<i>> \o StableOrder(S \ {i}, key)

\* DataFrame.sort_values(by=col), ascending. Rows with equal keys keep their
\* order (numpy sorts runs this short by insertion).
\* col holds the sort column: col[i] is its value in row i of df.
SortValues(df, col) ==
  LET o == StableOrder(1..Len(df), col)
  IN  [n \in 1..Len(df) |-> df[o[n]]]

\* ------------------------------------- FileOfflineStore.get_historical_features
\* A row of df_to_join: `row` is the dataframe row; `matched` is the entity
\* dataframe row the merge paired it with (provenance, read by no operation).

\* dd.merge(df_to_join, entity_df[join_keys + [ts]].rename(ts -> entity_ts),
\*          left_on=join_keys, right_on=join_keys): an inner join
\* ts_col is entity_df_event_timestamp_col
MatchesOf(l, spine, ts_col) ==
  LET m == SelectSeq(spine, LAMBDA e : e.join_key = l.join_key)
  IN  [n \in 1..Len(m) |->
         [row |-> [join_key |-> l.join_key, ts |-> l.ts, created |-> l.created,
                   feature |-> l.feature, entity_ts |-> m[n][ts_col]],
          matched |-> m[n]]]

RECURSIVE MergeOnJoinKeys(_, _, _)
MergeOnJoinKeys(left, spine, ts_col) ==
  IF left = <<>> THEN <<>>
  ELSE MatchesOf(Head(left), spine, ts_col) \o MergeOnJoinKeys(Tail(left), spine, ts_col)

\* the filter without its upper bound (mutant of TtlFilter)
TtlFilterNoUpperBound(df, t) ==
  SelectSeq(df, LAMBDA r : r.row.ts >= r.row.entity_ts - t)

\* the filter with a strict lower bound (mutant of TtlFilter)
TtlFilterStrictLowerBound(df, t) ==
  SelectSeq(df, LAMBDA r : /\ r.row.ts > r.row.entity_ts - t
                           /\ r.row.ts <= r.row.entity_ts)

\* "Filter rows by defined timestamp tolerance"
TtlFilter(df, t) ==
  SelectSeq(df, LAMBDA r : /\ r.row.ts >= r.row.entity_ts - t
                           /\ r.row.ts <= r.row.entity_ts)

\* df_to_join.drop([__entity_df_event_timestamp_col], axis=1)
DropEntityTs(df) ==
  [n \in 1..Len(df) |->
     [row |-> [join_key |-> df[n].row.join_key, ts |-> df[n].row.ts,
               created |-> df[n].row.created, feature |-> df[n].row.feature],
      matched |-> df[n].matched]]

\* df_to_join.sort_values(by=event_timestamp_column): the sort columns built
\* from created_timestamp_column are not passed to it
SortForDedup(df) == SortValues(df, [i \in 1..Len(df) |-> df[i].row.ts])

\* drop_duplicates(join_keys, keep="last")
DropDuplicates(df) ==
  Take(df, {i \in 1..Len(df) :
              ~ \E j \in (i + 1)..Len(df) : df[j].row.join_key = df[i].row.join_key})

\* df_to_join[right_entity_key_columns + feature_names], then the rename of
\* event_timestamp_column to entity_df_event_timestamp_col
SelectAndRename(df, ts_col) ==
  [n \in 1..Len(df) |->
     [row |-> [c \in {"join_key", ts_col, "feature"} |->
                 IF c = "join_key" THEN df[n].row.join_key
                 ELSE IF c = ts_col THEN df[n].row.ts
                 ELSE df[n].row.feature],
      matched |-> df[n].matched]]

\* entity_df_with_features.sort_values(entity_df_event_timestamp_col)
SortEntityDf(df, ts_col) == SortValues(df, [i \in 1..Len(df) |-> df[i][ts_col]])

DEFAULT_ENTITY_DF_EVENT_TIMESTAMP_COL == "event_timestamp"
\* the columns an entity dataframe can hold with a datetime dtype
DatetimeColumns == {"event_timestamp", "requested_at", "created_at"}

\* feature_view.ttl of a feature view that has no TTL, when it is None rather
\* than a zero timedelta: a value past every TTL of the model stands for None
NoTtl == MaxTs + 1

NoPlan == [kind |-> "none"]
NoCalls == [consumptions |-> 0, evaluations |-> 0, reads |-> 0]

\* no column: where the code raises for want of one, and where a column
\* argument is None (the code tests such arguments for truth)
NoColumn == ""

\* the choice that takes a datetime column whenever there is one (mutant of
\* EntityDfEventTimestampCol)
AnyDatetimeColumn(columns) ==
  IF DEFAULT_ENTITY_DF_EVENT_TIMESTAMP_COL \in columns
  THEN DEFAULT_ENTITY_DF_EVENT_TIMESTAMP_COL
  ELSE IF columns \cap DatetimeColumns # {}
  THEN CHOOSE c \in columns \cap DatetimeColumns : TRUE
  ELSE NoColumn

\* the choice of entity_df_event_timestamp_col: the default column if the
\* entity dataframe has it, else its only datetime column, else none
\* (ValueError)
EntityDfEventTimestampCol(columns) ==
  LET datetime_columns == columns \cap DatetimeColumns
  IN  IF DEFAULT_ENTITY_DF_EVENT_TIMESTAMP_COL \in columns
      THEN DEFAULT_ENTITY_DF_EVENT_TIMESTAMP_COL
      ELSE IF Cardinality(datetime_columns) = 1
      THEN CHOOSE c \in datetime_columns : TRUE
      ELSE NoColumn

\* a get_historical_features that runs the retrieval as it builds the job
\* (mutant of GetHistoricalFeatures)
GetHistoricalFeaturesEager(df, feature_views) ==
  /\ job = "none"
  /\ DEFAULT_ENTITY_DF_EVENT_TIMESTAMP_COL \in DOMAIN df[1]
  /\ job' = "built"
  /\ entity_df' = df
  /\ plan' = [kind |-> "historical",
              entity_df_event_timestamp_col |-> DEFAULT_ENTITY_DF_EVENT_TIMESTAMP_COL,
              feature_views |-> feature_views]
  /\ outcome' = [call |-> "get_historical_features", status |-> "returned",
                 entity_df |-> df]
  /\ calls' = [calls EXCEPT !.evaluations = @ + 1, !.reads = @ + feature_views]
  /\ UNCHANGED <<source, ttl, candidates, result>>
  /\ UNCHANGED <<online_store, last_written, matVars>>

\* get_historical_features up to the return of the FileRetrievalJob; it
\* evaluates nothing. feature_views is the number of feature views the
\* requested features belong to.
GetHistoricalFeatures(df, feature_views) ==
  /\ job = "none"
  /\ LET entity_df_event_timestamp_col == EntityDfEventTimestampCol(DOMAIN df[1])
     IN  IF entity_df_event_timestamp_col = NoColumn
         THEN /\ outcome' = [call |-> "get_historical_features", status |-> "ValueError",
                             entity_df |-> df]
              /\ UNCHANGED <<job, plan, entity_df>>
         ELSE /\ outcome' = [call |-> "get_historical_features", status |-> "returned",
                             entity_df |-> df]
              /\ job' = "built"
              /\ entity_df' = df
              /\ plan' = [kind |-> "historical",
                          entity_df_event_timestamp_col |-> entity_df_event_timestamp_col,
                          feature_views |-> feature_views]
  /\ UNCHANGED <<source, ttl, candidates, result, calls>>
  /\ UNCHANGED <<online_store, last_written, matVars>>

\* evaluate_historical_retrieval: how it ends, the sources it read, df_to_join
\* after the timestamp filter and the dataframe it returns. With no TTL (None)
\* the subtraction in the filter raises; with a second feature view the loop
\* reads its source and then finds entity_df_with_features deleted.
EvaluateHistoricalRetrieval ==
  LET ts_col == plan.entity_df_event_timestamp_col
      spine == SortEntityDf(entity_df, ts_col)
      merged == MergeOnJoinKeys(source, spine, ts_col)
      filtered == TtlFilter(merged, ttl)
      sorted == SortForDedup(DropEntityTs(filtered))
  IN  IF ttl = NoTtl
      THEN [status |-> "TypeError", reads |-> 1, candidates |-> candidates,
            result |-> result]
      ELSE IF plan.feature_views > 1
      THEN [status |-> "UnboundLocalError", reads |-> 2, candidates |-> filtered,
            result |-> result]
      ELSE [status |-> "returned", reads |-> 1, candidates |-> filtered,
            result |-> SelectAndRename(DropDuplicates(sorted), ts_col)]

\* ------------------------ FileOfflineStore.pull_latest_from_table_or_query
\* the columns of the batch source
SourceColumns == {"join_key", "ts", "created", "feature"}
DUMMY_ENTITY_ID == "__dummy_id"
DUMMY_ENTITY_VAL == ""

\* the arguments of a pull: columns of the source and columns it lacks
JoinKeyColumns == {<<>>, <<"join_key">>, <<"absent_key">>}
FeatureNameColumns == {<<"feature">>, <<"absent_feature">>}
EventTimestampColumns == {"ts", "absent_ts"}
CreatedTimestampColumns == {NoColumn, "created", "absent_created"}
PullArguments ==
  [join_key_columns : JoinKeyColumns, feature_name_columns : FeatureNameColumns,
   event_timestamp_column : EventTimestampColumns,
   created_timestamp_column : CreatedTimestampColumns,
   start_date : WindowTimes, end_date : WindowTimes]

\* pull_latest_from_table_or_query: returns the FileRetrievalJob; it
\* evaluates nothing
PullLatestFromTableOrQuery(args) ==
  /\ job = "none"
  /\ job' = "built"
  /\ plan' = [kind |-> "pull", args |-> args]
  /\ outcome' = [call |-> "pull_latest_from_table_or_query", status |-> "returned"]
  /\ UNCHANGED <<source, ttl, entity_df, candidates, result, calls>>
  /\ UNCHANGED <<online_store, last_written, matVars>>

\* the arguments of pull_all_from_table_or_query: it takes no created
\* timestamp column
PullAllArguments ==
  [join_key_columns : JoinKeyColumns, feature_name_columns : FeatureNameColumns,
   event_timestamp_column : EventTimestampColumns,
   start_date : WindowTimes, end_date : WindowTimes]

\* pull_all_from_table_or_query: the job of pull_latest_from_table_or_query
\* for the join keys followed by the event timestamp column and for no created
\* timestamp column; caller_args keeps what the caller passed
PullAllFromTableOrQuery(args) ==
  /\ job = "none"
  /\ job' = "built"
  /\ plan' = [kind |-> "pull",
              args |-> [join_key_columns |->
                          args.join_key_columns \o <<args.event_timestamp_column>>,
                        feature_name_columns |-> args.feature_name_columns,
                        event_timestamp_column |-> args.event_timestamp_column,
                        created_timestamp_column |-> NoColumn,
                        start_date |-> args.start_date,
                        end_date |-> args.end_date],
              caller_args |-> args]
  /\ outcome' = [call |-> "pull_all_from_table_or_query", status |-> "returned"]
  /\ UNCHANGED <<source, ttl, entity_df, candidates, result, calls>>
  /\ UNCHANGED <<online_store, last_written, matVars>>

\* source_df.drop_duplicates(join_key_columns, keep="last")
DropDuplicatesOn(df, columns) ==
  Take(df, {i \in 1..Len(df) :
              ~ \E j \in (i + 1)..Len(df) :
                  \A n \in 1..Len(columns) : df[j][columns[n]] = df[i][columns[n]]})

\* a variant that deduplicates on the dummy column: every row carries the same
\* value, so only the last row is kept
WithDummyEntityLatestOnly(df) ==
  IF df = <<>> THEN <<>>
  ELSE << [c \in DOMAIN df[Len(df)] \cup {DUMMY_ENTITY_ID} |->
             IF c = DUMMY_ENTITY_ID THEN DUMMY_ENTITY_VAL ELSE df[Len(df)][c]] >>

\* source_df[DUMMY_ENTITY_ID] = DUMMY_ENTITY_VAL
WithDummyEntity(df) ==
  [n \in 1..Len(df) |->
     [c \in DOMAIN df[n] \cup {DUMMY_ENTITY_ID} |->
        IF c = DUMMY_ENTITY_ID THEN DUMMY_ENTITY_VAL ELSE df[n][c]]]

\* source_df[list(columns_to_extract)]
Extract(df, columns) == [n \in 1..Len(df) |-> [c \in columns |-> df[n][c]]]

\* evaluate_offline_job: how it ends, the sources it read and the dataframe it
\* returns. Looking up the dtype of a timestamp column the source lacks, and
\* selecting a column it lacks, raise KeyError; only the join keys are checked
\* against the source's columns.
EvaluateOfflineJob ==
  LET a == plan.args
      ts_columns == IF a.created_timestamp_column # NoColumn
                    THEN {a.event_timestamp_column, a.created_timestamp_column}
                    ELSE {a.event_timestamp_column}
      raised(error) == [status |-> error, reads |-> 1, candidates |-> candidates,
                        result |-> result]
  IN  IF ts_columns \ SourceColumns # {} THEN raised("KeyError")
      ELSE IF ~ (Range(a.join_key_columns) \subseteq SourceColumns)
      THEN raised("FeastJoinKeysDuringMaterialization")
      ELSE
        LET sorted == SortValues(source, [i \in 1..Len(source) |->
                                            source[i][a.event_timestamp_column]])
            inside == SelectSeq(sorted, LAMBDA r :
                                  /\ r[a.event_timestamp_column] >= a.start_date
                                  /\ r[a.event_timestamp_column] < a.end_date)
            with_keys == Range(a.join_key_columns) \cup Range(a.feature_name_columns)
                           \cup ts_columns
            columns_to_extract == IF a.join_key_columns # <<>> THEN with_keys
                                  ELSE with_keys \cup {DUMMY_ENTITY_ID}
            source_df == IF a.join_key_columns # <<>>
                         THEN DropDuplicatesOn(inside, a.join_key_columns)
                         ELSE WithDummyEntity(inside)
        IN  IF ~ (columns_to_extract \subseteq SourceColumns \cup {DUMMY_ENTITY_ID})
            THEN raised("KeyError")
            ELSE [status |-> "returned", reads |-> 1, candidates |-> candidates,
                  result |-> Extract(source_df, columns_to_extract)]

\* ----------------------------------------------------------- FileRetrievalJob
MaxConsumptions == 2

\* self.evaluation_function()
EvaluationFunction ==
  IF plan.kind = "historical" THEN EvaluateHistoricalRetrieval ELSE EvaluateOfflineJob

\* a consumption of the job: it calls the evaluation function once and hands on
\* what the function returns or raises
Consume(how) ==
  /\ job \in {"built", "evaluated", "raised"}
  /\ calls.consumptions < MaxConsumptions
  /\ \E r \in {EvaluationFunction} :
         /\ candidates' = r.candidates
         /\ result' = r.result
         /\ job' = IF r.status = "returned" THEN "evaluated" ELSE "raised"
         /\ outcome' = [call |-> how, status |-> r.status]
         /\ calls' = [consumptions |-> calls.consumptions + 1,
                      evaluations |-> calls.evaluations + 1,
                      reads |-> calls.reads + r.reads]
  /\ UNCHANGED <<source, ttl, entity_df, plan>>
  /\ UNCHANGED <<online_store, last_written, matVars>>

\* to_df -> _to_df_internal
ToDf == Consume("to_df")

\* to_arrow -> _to_arrow_internal
ToArrow == Consume("to_arrow")

\* persist: writes the table to_arrow gives to the storage path
Persist == Consume("persist")

\* the caller drops a job it has not consumed
Discard ==
  /\ job = "built"
  /\ job' = "discarded"
  /\ UNCHANGED <<source, ttl, entity_df, candidates, result, plan, calls>>
  /\ UNCHANGED <<onlineVars, matVars>>

\* --------------------------------------------------- AwsDynamoProvider
Projects == {"p1", "p2"}
FeatureNames == {"feature"}
None == [type |-> "None", repr |-> 0]
\* a timezone-aware datetime, and the text str() gives for it
Datetime(t) == [type |-> "datetime", repr |-> t]
Str(d) == [type |-> "str", repr |-> d.repr]
\* utils.make_tzaware: a datetime is taken as the UTC instant it denotes
MakeTzAware(d) == d

\* ValueProto.SerializeToString / ParseFromString, and the Binary wrapper boto3
\* returns for a stored bytes attribute
SerializeToString(v) == [bytes |-> v]
ParseFromString(b) == b.bytes
Binary(b) == [value |-> b]

\* compute_datastore_entity_id: the hex digest of the hash of the serialized
\* entity key; distinct keys of the model have distinct digests
ComputeDatastoreEntityId(entity_key) == [mmh3_hex |-> entity_key]

\* the tuples online_write_batch takes
WriteRows ==
  [entity_key : Keys, features : [FeatureNames -> FeatureVals],
   timestamp : {Datetime(t) : t \in Times}, created_ts : {None}]

\* an item that also carries the number of intervals recorded when it was put
\* (mutant of ItemOf)
ItemOfStamped(project, r) ==
  [Row |-> ComputeDatastoreEntityId(r.entity_key),
   Project |-> project,
   event_ts |-> Str(MakeTzAware(r.timestamp)),
   values |-> [k \in DOMAIN r.features |-> SerializeToString(r.features[k])],
   written_at |-> Len(materialization_intervals)]

\* the item online_write_batch puts for one tuple
ItemOf(project, r) ==
  [Row |-> ComputeDatastoreEntityId(r.entity_key),
   Project |-> project,
   event_ts |-> Str(MakeTzAware(r.timestamp)),
   values |-> [k \in DOMAIN r.features |-> SerializeToString(r.features[k])]]

\* put_item that adds the item beside the one it should replace (mutant of PutItem)
PutItemKeepingOld(store, item) == store \cup {item}

\* put_item: the item replaces the item with the same primary key (Row, Project)
PutItem(store, item) ==
  {i \in store : ~ (i.Row = item.Row /\ i.Project = item.Project)} \cup {item}

RECURSIVE PutAll(_, _, _)
PutAll(store, project, data) ==
  IF data = <<>> THEN store
  ELSE PutAll(PutItem(store, ItemOf(project, Head(data))), project, Tail(data))

\* BatchWriteItem rejects a request that names one primary key twice
HasDuplicateKeys(data) ==
  \E i, j \in 1..Len(data) : i < j /\ data[i].entity_key = data[j].entity_key

RECURSIVE RecordWritten(_, _, _)
RecordWritten(lw, project, data) ==
  IF data = <<>> THEN lw
  ELSE RecordWritten([lw EXCEPT ![<<project, Head(data).entity_key>>] = Head(data)],
                     project, Tail(data))

\* online_write_batch: the batch writer sends the buffered puts when the with
\* block is left
OnlineWriteBatch(project, data) ==
  /\ IF HasDuplicateKeys(data)
     THEN /\ outcome' = [call |-> "online_write_batch", status |-> "ClientError"]
          /\ UNCHANGED <<online_store, last_written>>
     ELSE /\ online_store' = PutAll(online_store, project, data)
          /\ last_written' = RecordWritten(last_written, project, data)
          /\ outcome' = [call |-> "online_write_batch", status |-> "returned"]
  /\ UNCHANGED <<histVars, matVars>>

\* get_item: the response holds "Item" only when an item has the key
GetItem(store, row, project) ==
  LET found == {i \in store : i.Row = row /\ i.Project = project}
  IN  IF found = {} THEN [ResponseMetadata |-> "200"]
      ELSE LET i == CHOOSE x \in found : TRUE
           IN  [ResponseMetadata |-> "200",
                Item |-> [Row |-> i.Row, Project |-> i.Project, event_ts |-> i.event_ts,
                          values |-> [k \in DOMAIN i.values |-> Binary(i.values[k])]]]

\* the tuple online_read appends for an item
ReadTuple(value) ==
  <<value.event_ts,
    [k \in DOMAIN value.values |-> ParseFromString(value.values[k].value)]>>

\* the loop of online_read over entity_keys: response['Item'] raises KeyError
\* when the response holds no item
RECURSIVE ReadLoop(_, _, _, _)
ReadLoop(store, project, entity_keys, acc) ==
  IF entity_keys = <<>> THEN [status |-> "returned", result |-> acc]
  ELSE LET response == GetItem(store, ComputeDatastoreEntityId(Head(entity_keys)), project)
       IN  IF "Item" \notin DOMAIN response
           THEN [status |-> "KeyError", result |-> acc]
           ELSE ReadLoop(store, project, Tail(entity_keys),
                         Append(acc, ReadTuple(response.Item)))

OnlineRead(project, entity_keys) ==
  /\ LET r == ReadLoop(online_store, project, entity_keys, <<>>)
     IN  outcome' = [call |-> "online_read", status |-> r.status, project |-> project,
                     entity_keys |-> entity_keys, result |-> r.result]
  /\ UNCHANGED <<online_store, last_written>>
  /\ UNCHANGED <<histVars, matVars>>

\* ------------------------- AwsDynamoProvider.materialize_single_feature_view
Runs == {1, 2}
MatProject == "p1"

\* the pull that keeps the first row of each join key (mutant of PullLatest)
PullLatestKeepFirst(src, start_date, end_date) ==
  LET sorted == SortValues(src, [i \in 1..Len(src) |-> src[i].ts])
      inside == SelectSeq(sorted, LAMBDA r : r.ts >= start_date /\ r.ts < end_date)
  IN  Take(inside, {i \in 1..Len(inside) :
                      ~ \E j \in 1..(i - 1) : inside[j].join_key = inside[i].join_key})

\* the pull with end_date inside the window (mutant of PullLatest)
PullLatestClosedEnd(src, start_date, end_date) ==
  LET sorted == SortValues(src, [i \in 1..Len(src) |-> src[i].ts])
      inside == SelectSeq(sorted, LAMBDA r : r.ts >= start_date /\ r.ts <= end_date)
  IN  Take(inside, {i \in 1..Len(inside) :
                      ~ \E j \in (i + 1)..Len(inside) : inside[j].join_key = inside[i].join_key})

\* FileOfflineStore.pull_latest_from_table_or_query, evaluated, with join keys:
\* sort by event timestamp, keep the rows in [start_date, end_date), keep the
\* last row of each join key
PullLatest(src, start_date, end_date) ==
  LET sorted == SortValues(src, [i \in 1..Len(src) |-> src[i].ts])
      inside == SelectSeq(sorted, LAMBDA r : r.ts >= start_date /\ r.ts < end_date)
  IN  Take(inside, {i \in 1..Len(inside) :
                      ~ \E j \in (i + 1)..Len(inside) : inside[j].join_key = inside[i].join_key})

\* _convert_arrow_to_proto: one (entity key, features, event timestamp, created
\* timestamp) tuple per row of the table
ConvertArrowToProto(t) ==
  [n \in 1..Len(t) |->
     [entity_key |-> t[n].join_key,
      features |-> [k \in FeatureNames |-> t[n].feature],
      timestamp |-> Datetime(t[n].ts),
      created_ts |-> Datetime(t[n].created)]]

\* what a run's first call finds: nothing recorded, no call before it
NothingBefore == [intervals |-> <<>>, registry |-> <<>>, repeats |-> FALSE]

Idle(r) == pc[r] \in {"idle", "done", "pull_raised", "convert_raised", "write_raised",
                      "apply_raised"}

\* entry of the call up to the tz-aware start and end dates
MaterializeStart(r, w) ==
  /\ Idle(r)
  /\ Len(materialization_intervals) < MaxIntervals
  /\ pc' = [pc EXCEPT ![r] = "pull"]
  /\ window' = [window EXCEPT ![r] = <<MakeTzAware(w[1]), MakeTzAware(w[2])>>]
  /\ table' = [table EXCEPT ![r] = <<>>]
  /\ before' = [before EXCEPT ![r] = [intervals |-> materialization_intervals,
                                      registry |-> registry,
                                      repeats |-> pc[r] = "done" /\ window[r] = w]]
  /\ trail' = [trail EXCEPT ![r] = <<>>]
  /\ overlapped' = [q \in Runs |-> IF \E o \in Runs \ {r} : ~ Idle(o) THEN q = r \/ ~ Idle(q)
                                   ELSE q # r /\ overlapped[q]]
  /\ UNCHANGED <<histVars, onlineVars, materialization_intervals, registry>>

\* offline_store.pull_latest_from_table_or_query and the field mapping
Pull(r) ==
  /\ pc[r] = "pull"
  /\ table' = [table EXCEPT ![r] = PullLatest(source, window[r][1], window[r][2])]
  /\ pc' = [pc EXCEPT ![r] = "convert"]
  /\ trail' = [trail EXCEPT ![r] = Append(@, "pull")]
  /\ UNCHANGED <<histVars, onlineVars, materialization_intervals, registry, window, before, overlapped>>

\* a step of the call raises and the exception leaves the method
Raise(r, at) ==
  /\ pc' = [pc EXCEPT ![r] = at]
  /\ UNCHANGED <<materialization_intervals, registry, window, table, before, trail,
                 overlapped>>

PullRaises(r) ==
  /\ pc[r] = "pull"
  /\ Raise(r, "pull_raised")
  /\ UNCHANGED <<histVars, onlineVars>>

Convert(r) ==
  /\ pc[r] = "convert"
  /\ table' = [table EXCEPT ![r] = ConvertArrowToProto(table[r])]
  /\ pc' = [pc EXCEPT ![r] = "write"]
  /\ trail' = [trail EXCEPT ![r] = Append(@, "convert")]
  /\ UNCHANGED <<histVars, onlineVars, materialization_intervals, registry, window, before, overlapped>>

ConvertRaises(r) ==
  /\ pc[r] = "convert"
  /\ Raise(r, "convert_raised")
  /\ UNCHANGED <<histVars, onlineVars>>

\* self.online_write_batch(project, feature_view, rows_to_write, None) returns
Write(r) ==
  /\ pc[r] = "write"
  /\ online_store' = PutAll(online_store, MatProject, table[r])
  /\ last_written' = RecordWritten(last_written, MatProject, table[r])
  /\ pc' = [pc EXCEPT ![r] = "append"]
  /\ trail' = [trail EXCEPT ![r] = Append(@, "write")]
  /\ UNCHANGED <<histVars, outcome, materialization_intervals, registry, window, table, before,
                 overlapped>>

\* a failed write that records the interval all the same (mutant of WriteRaises)
WriteRaisesAndRecords(r) ==
  /\ pc[r] = "write"
  /\ pc' = [pc EXCEPT ![r] = "write_raised"]
  /\ materialization_intervals' = Append(materialization_intervals, window[r])
  /\ UNCHANGED <<registry, window, table, before, trail, overlapped>>
  /\ UNCHANGED <<histVars, onlineVars>>

\* online_write_batch raises; the puts made so far stay in the table
WriteRaises(r) ==
  /\ pc[r] = "write"
  /\ \E n \in 0..Len(table[r]) :
       /\ online_store' = PutAll(online_store, MatProject, SubSeq(table[r], 1, n))
       /\ last_written' = RecordWritten(last_written, MatProject, SubSeq(table[r], 1, n))
  /\ Raise(r, "write_raised")
  /\ UNCHANGED <<histVars, outcome>>

\* the interval put in front of the list (mutant of AppendInterval)
PrependInterval(r) ==
  /\ pc[r] = "append"
  /\ materialization_intervals' = <<window[r]>> \o materialization_intervals
  /\ pc' = [pc EXCEPT ![r] = "apply"]
  /\ trail' = [trail EXCEPT ![r] = Append(@, "append")]
  /\ UNCHANGED <<histVars, onlineVars, registry, window, table, before, overlapped>>

\* feature_view.materialization_intervals.append((start_date, end_date))
AppendInterval(r) ==
  /\ pc[r] = "append"
  /\ materialization_intervals' = Append(materialization_intervals, window[r])
  /\ pc' = [pc EXCEPT ![r] = "apply"]
  /\ trail' = [trail EXCEPT ![r] = Append(@, "append")]
  /\ UNCHANGED <<histVars, onlineVars, registry, window, table, before, overlapped>>

\* registry.apply_feature_view(feature_view, project)
ApplyFeatureView(r) ==
  /\ pc[r] = "apply"
  /\ registry' = materialization_intervals
  /\ pc' = [pc EXCEPT ![r] = "done"]
  /\ trail' = [trail EXCEPT ![r] = Append(@, "apply")]
  /\ UNCHANGED <<histVars, onlineVars, materialization_intervals, window, table, before,
                 overlapped>>

ApplyRaises(r) ==
  /\ pc[r] = "apply"
  /\ Raise(r, "apply_raised")
  /\ UNCHANGED <<histVars, onlineVars>>

\* ---------------------------------------------------------- specifications
NoRow == [entity_key |-> "none"]

InitOnline ==
  /\ source = <<>>
  /\ ttl = 0
  /\ entity_df = <<>>
  /\ job = "none"
  /\ candidates = <<>>
  /\ result = <<>>
  /\ plan = NoPlan
  /\ calls = NoCalls
  /\ online_store = {}
  /\ outcome = [call |-> "none"]
  /\ last_written = [pk \in Projects \X Keys |-> NoRow]
  /\ materialization_intervals = <<>>
  /\ registry = <<>>
  /\ pc = [r \in Runs |-> "idle"]
  /\ window = [r \in Runs |-> <<0, 0>>]
  /\ table = [r \in Runs |-> <<>>]
  /\ before = [r \in Runs |-> NothingBefore]
  /\ trail = [r \in Runs |-> <<>>]
  /\ overlapped = [r \in Runs |-> FALSE]

NextOnline ==
  \/ \E project \in Projects : \E data \in SeqsUpTo(WriteRows, 2) :
       OnlineWriteBatch(project, data)
  \/ \E project \in Projects : \E entity_keys \in SeqsUpTo(Keys, 2) :
       OnlineRead(project, entity_keys)

SpecOnline == InitOnline /\ [][NextOnline]_vars

\* rows of the batch source of the materialized feature view
MatSourceRows == [join_key : Keys, ts : Times, created : {1}, feature : FeatureVals]

InitMat ==
  /\ source \in SeqsUpTo(MatSourceRows, 2)
  /\ ttl = 0
  /\ entity_df = <<>>
  /\ job = "none"
  /\ candidates = <<>>
  /\ result = <<>>
  /\ plan = NoPlan
  /\ calls = NoCalls
  /\ online_store = {}
  /\ outcome = [call |-> "none"]
  /\ last_written = [pk \in Projects \X Keys |-> NoRow]
  /\ materialization_intervals = <<>>
  /\ registry = <<>>
  /\ pc = [r \in Runs |-> "idle"]
  /\ window = [r \in Runs |-> <<0, 0>>]
  /\ table = [r \in Runs |-> <<>>]
  /\ before = [r \in Runs |-> NothingBefore]
  /\ trail = [r \in Runs |-> <<>>]
  /\ overlapped = [r \in Runs |-> FALSE]

\* one caller: calls of materialize_single_feature_view follow one another
NextMat ==
  \/ \E w \in Windows : MaterializeStart(1, w)
  \/ Pull(1)
  \/ PullRaises(1)
  \/ Convert(1)
  \/ ConvertRaises(1)
  \/ Write(1)
  \/ WriteRaises(1)
  \/ AppendInterval(1)
  \/ ApplyFeatureView(1)
  \/ ApplyRaises(1)

SpecMat == InitMat /\ [][NextMat]_vars

\* two callers materialize the same feature view at once; no lock is taken
NextConcurrent ==
  \/ \E r \in Runs : \E w \in Windows : MaterializeStart(r, w)
  \/ \E r \in Runs : Pull(r)
  \/ \E r \in Runs : PullRaises(r)
  \/ \E r \in Runs : Convert(r)
  \/ \E r \in Runs : ConvertRaises(r)
  \/ \E r \in Runs : Write(r)
  \/ \E r \in Runs : WriteRaises(r)
  \/ \E r \in Runs : AppendInterval(r)
  \/ \E r \in Runs : ApplyFeatureView(r)
  \/ \E r \in Runs : ApplyRaises(r)

InitConcurrent == InitMat /\ Len(source) <= 1

SpecConcurrent == InitConcurrent /\ [][NextConcurrent]_vars

\* entity dataframes of one row: with the default request-timestamp column,
\* with no datetime column, with one datetime column of another name, with two
EntityDfRows ==
  SpineRows \cup [join_key : Keys] \cup [join_key : Keys, requested_at : Times]
    \cup [join_key : Keys, requested_at : Times, created_at : Times]
FeatureViewCounts == {1, 2}

InitJobs ==
  /\ source \in SeqsUpTo(MatSourceRows, 1)
  /\ ttl \in Ttls \cup {NoTtl}
  /\ entity_df = <<>>
  /\ job = "none"
  /\ candidates = <<>>
  /\ result = <<>>
  /\ plan = NoPlan
  /\ calls = NoCalls
  /\ online_store = {}
  /\ outcome = [call |-> "none"]
  /\ last_written = [pk \in Projects \X Keys |-> NoRow]
  /\ materialization_intervals = <<>>
  /\ registry = <<>>
  /\ pc = [r \in Runs |-> "idle"]
  /\ window = [r \in Runs |-> <<0, 0>>]
  /\ table = [r \in Runs |-> <<>>]
  /\ before = [r \in Runs |-> NothingBefore]
  /\ trail = [r \in Runs |-> <<>>]
  /\ overlapped = [r \in Runs |-> FALSE]

\* retrieval jobs of both kinds, built, consumed any number of times or dropped
NextJobs ==
  \/ \E e \in EntityDfRows : \E n \in FeatureViewCounts : GetHistoricalFeatures(<<e>>, n)
  \/ \E args \in PullArguments :
       args.start_date < args.end_date /\ PullLatestFromTableOrQuery(args)
  \/ ToDf
  \/ ToArrow
  \/ Persist
  \/ Discard

SpecJobs == InitJobs /\ [][NextJobs]_vars

\* the state before a pull job is built: a batch source of up to two rows
InitPull ==
  /\ source \in SeqsUpTo(MatSourceRows, 2)
  /\ ttl = 0
  /\ entity_df = <<>>
  /\ job = "none"
  /\ candidates = <<>>
  /\ result = <<>>
  /\ plan = NoPlan
  /\ calls = NoCalls
  /\ online_store = {}
  /\ outcome = [call |-> "none"]
  /\ last_written = [pk \in Projects \X Keys |-> NoRow]
  /\ materialization_intervals = <<>>
  /\ registry = <<>>
  /\ pc = [r \in Runs |-> "idle"]
  /\ window = [r \in Runs |-> <<0, 0>>]
  /\ table = [r \in Runs |-> <<>>]
  /\ before = [r \in Runs |-> NothingBefore]
  /\ trail = [r \in Runs |-> <<>>]
  /\ overlapped = [r \in Runs |-> FALSE]

\* pull jobs of both entry points, consumed any number of times
NextPull ==
  \/ \E args \in PullArguments :
       args.start_date < args.end_date /\ PullLatestFromTableOrQuery(args)
  \/ \E args \in PullAllArguments :
       args.start_date < args.end_date /\ PullAllFromTableOrQuery(args)
  \/ ToDf
  \/ ToArrow
  \/ Persist

SpecPull == InitPull /\ [][NextPull]_vars

Init ==
  /\ source \in SourceContents
  /\ ttl \in Ttls
  /\ entity_df = <<>>
  /\ job = "none"
  /\ candidates = <<>>
  /\ result = <<>>
  /\ plan = NoPlan
  /\ calls = NoCalls
  /\ online_store = {}
  /\ outcome = [call |-> "none"]
  /\ last_written = [pk \in Projects \X Keys |-> NoRow]
  /\ materialization_intervals = <<>>
  /\ registry = <<>>
  /\ pc = [r \in Runs |-> "idle"]
  /\ window = [r \in Runs |-> <<0, 0>>]
  /\ table = [r \in Runs |-> <<>>]
  /\ before = [r \in Runs |-> NothingBefore]
  /\ trail = [r \in Runs |-> <<>>]
  /\ overlapped = [r \in Runs |-> FALSE]

Next ==
  \/ \E df \in SeqsUpTo(SpineRows, MaxSpine) \ {<<>>} : GetHistoricalFeatures(df, 1)
  \/ job = "built" /\ ToDf

Spec == Init /\ [][Next]_vars

\* ------------------------------------------------------------------ claims
\* the merged row of source row s and entity row e, as it stands in df_to_join
\* before the entity timestamp column is dropped
Paired(s, e) ==
  [row |-> [join_key |-> s.join_key, ts |-> s.ts, created |-> s.created,
            feature |-> s.feature, entity_ts |-> e.event_timestamp],
   matched |-> e]

\* C1: no leakage. Every row of the evaluated retrieval carries the values of a
\* source row of its entity whose event timestamp is <= the request timestamp
\* of the entity row it was matched to.
C1_NoLeakage ==
  job = "evaluated" =>
    \A n \in 1..Len(result) :
      /\ result[n].matched \in Range(entity_df)
      /\ result[n].matched.join_key = result[n].row.join_key
      /\ result[n].row.event_timestamp <= result[n].matched.event_timestamp
      /\ \E s \in Range(source) :
           /\ s.join_key = result[n].row.join_key
           /\ s.ts = result[n].row.event_timestamp
           /\ s.feature = result[n].row.feature

\* a retrieval that returned a row for an entity whose source also holds a row
\* later than one of that entity's request timestamps
C1_Witness ==
  /\ job = "evaluated"
  /\ \E n \in 1..Len(result) : \E s \in Range(source) : \E e \in Range(entity_df) :
       /\ s.join_key = result[n].row.join_key
       /\ e.join_key = s.join_key
       /\ s.ts > e.event_timestamp

C3_DedupKeepsLatestCreated ==
  job = "evaluated" =>
    \A n \in 1..Len(result) :
      LET tied == {c \in Range(candidates) :
                     /\ c.row.join_key = result[n].row.join_key
                     /\ c.row.ts = result[n].row.event_timestamp}
      IN  \E c \in tied :
            /\ c.row.feature = result[n].row.feature
            /\ \A d \in tied : d.row.created <= c.row.created

\* C4 as claimed: the result has one row per entity row.
C4_RowCountEqualsSpine ==
  job = "evaluated" => Len(result) = Len(entity_df)

\* what online_read owes for one key given the table's content: the tuple of
\* the key's item, or the absent marker
ResultFor(store, project, entity_key) ==
  LET response == GetItem(store, ComputeDatastoreEntityId(entity_key), project)
  IN  IF "Item" \in DOMAIN response THEN ReadTuple(response.Item) ELSE <<None, None>>

\* C8 as claimed: every online_read returns one element per requested key, in
\* the order of entity_keys, element i being the result for entity_keys[i].
C8_ReadIsPositional ==
  outcome.call = "online_read" =>
    /\ outcome.status = "returned"
    /\ Len(outcome.result) = Len(outcome.entity_keys)
    /\ \A i \in 1..Len(outcome.entity_keys) :
         outcome.result[i] = ResultFor(online_store, outcome.project, outcome.entity_keys[i])

\* C9 as claimed: a requested key never written for the table and project
\* yields (None, None) at its position, and the call returns.
C9_MissIsAbsentMarker ==
  outcome.call = "online_read" =>
    \A i \in 1..Len(outcome.entity_keys) :
      last_written[<<outcome.project, outcome.entity_keys[i]>>] = NoRow =>
        /\ outcome.status = "returned"
        /\ Len(outcome.result) = Len(outcome.entity_keys)
        /\ outcome.result[i] = <<None, None>>

\* C10 as claimed: a read of keys that were all written returns, per key, the
\* event timestamp and the feature map of the row last written for it; the
\* table holds one item per (storage id, project), under the id derived from
\* the key.
C10_ReadAfterWrite ==
  /\ \A i, j \in online_store : (i.Row = j.Row /\ i.Project = j.Project) => i = j
  /\ (/\ outcome.call = "online_read"
      /\ \A i \in 1..Len(outcome.entity_keys) :
           last_written[<<outcome.project, outcome.entity_keys[i]>>] # NoRow)
     => /\ outcome.status = "returned"
        /\ Len(outcome.result) = Len(outcome.entity_keys)
        /\ \A i \in 1..Len(outcome.entity_keys) :
             LET w == last_written[<<outcome.project, outcome.entity_keys[i]>>]
             IN  outcome.result[i] = <<w.timestamp, w.features>>

Raised == {"pull_raised", "convert_raised", "write_raised"}

\* C5: when the offline pull, the row conversion or online_write_batch raised,
\* the call leaves materialization_intervals as it found it, has not reached its
\* append and has not called registry.apply_feature_view.
C5_FailureLeavesIntervals ==
  pc[1] \in Raised =>
    /\ materialization_intervals = before[1].intervals
    /\ registry = before[1].registry
    /\ \A n \in 1..Len(trail[1]) : trail[1][n] \notin {"append", "apply"}

\* a call that found a recorded interval and whose online write raised after
\* putting a row
C5_Witness ==
  /\ pc[1] = "write_raised"
  /\ before[1].intervals # <<>>
  /\ window[1] \notin Range(before[1].intervals)
  /\ \E i \in online_store : i.event_ts.repr >= window[1][1]

\* C6: a call that succeeded has appended its (start, end) as the last interval,
\* kept the earlier intervals in place, appended after online_write_batch
\* returned, and then written the list to the registry.
C6_SuccessAppendsInterval ==
  pc[1] = "done" =>
    /\ materialization_intervals = Append(before[1].intervals, window[1])
    /\ registry = materialization_intervals
    /\ trail[1] = <<"pull", "convert", "write", "append", "apply">>

\* a successful call over a window other than the one recorded before it
C6_Witness ==
  /\ pc[1] = "done"
  /\ before[1].intervals # <<>>
  /\ window[1] \notin Range(before[1].intervals)

WindowsOverlap(v, w) == v[1] < w[2] /\ w[1] < v[2]

\* C7 as claimed: two runs over overlapping windows whose calls ran at the same
\* time never both succeed with both intervals recorded.
C7_ConcurrentRunsExcluded ==
  \A r, q \in Runs :
    (r # q /\ overlapped[r] /\ overlapped[q] /\ WindowsOverlap(window[r], window[q]))
      => ~ (/\ pc[r] = "done"
            /\ pc[q] = "done"
            /\ window[r] \in Range(registry)
            /\ window[q] \in Range(registry)
            /\ Cardinality({n \in 1..Len(registry) :
                              registry[n] \in {window[r], window[q]}}) >= 2)

\* C11: materialization is idempotent. When a call over a window completed and
\* the next call is over the same window (the source does not change between
\* the two), the online_write_batch of the second call leaves the table's
\* items, and the row last written per entity key, as it found them.
C11_RematerializeSameWindow ==
  [][(pc[1] = "write" /\ pc'[1] = "append" /\ before[1].repeats)
       => (online_store' = online_store /\ last_written' = last_written)]_vars

\* a completed second call over the window of the completed first call, whose
\* pull found two rows of one entity key in the window and returned the later
C11_Witness ==
  /\ pc[1] = "done"
  /\ before[1].repeats
  /\ online_store # {}
  /\ \E s, t \in Range(source) :
       /\ s.join_key = t.join_key
       /\ s.ts < t.ts
       /\ window[1][1] <= s.ts
       /\ t.ts < window[1][2]

\* C12: the rows pull_latest_from_table_or_query returns have an event
\* timestamp t with start_date <= t < end_date, and they are rows of the
\* source; a source row at exactly start_date is returned when its key has no
\* later row in the window; a row at exactly end_date is not returned.
C12_PullWindowHalfOpen ==
  pc[1] = "convert" =>
    /\ \A n \in 1..Len(table[1]) :
         /\ table[1][n] \in Range(source)
         /\ window[1][1] <= table[1][n].ts
         /\ table[1][n].ts < window[1][2]
    /\ \A s \in Range(source) :
         (/\ s.ts = window[1][1]
          /\ \A t \in Range(source) :
               t.join_key = s.join_key => (t.ts <= s.ts \/ t.ts >= window[1][2]))
           => \E n \in 1..Len(table[1]) : table[1][n].join_key = s.join_key /\ table[1][n].ts = s.ts
    /\ \A s \in Range(source) :
         s.ts = window[1][2] => \A n \in 1..Len(table[1]) : table[1][n].ts # s.ts

\* a pull that returned a row at exactly start_date from a source that also
\* holds a row at exactly end_date
C12_Witness ==
  /\ pc[1] = "convert"
  /\ \E n \in 1..Len(table[1]) : table[1][n].ts = window[1][1]
  /\ \E s \in Range(source) : s.ts = window[1][2]

Consumptions == {"to_df", "to_arrow", "persist"}

\* the columns a pull asks the source for
RequestedColumns(a) ==
  Range(a.join_key_columns) \cup Range(a.feature_name_columns)
    \cup {a.event_timestamp_column}
    \cup (IF a.created_timestamp_column # NoColumn THEN {a.created_timestamp_column} ELSE {})

\* C13 as claimed: a consumed pull that asked for a column the source lacks (a
\* join key, a feature or a timestamp column) has raised the schema error and
\* returned no batch.
C13_AbsentColumnIsSchemaError ==
  (/\ plan.kind = "pull"
   /\ outcome.call \in Consumptions
   /\ RequestedColumns(plan.args) \ SourceColumns # {})
    => /\ outcome.status = "FeastJoinKeysDuringMaterialization"
       /\ job = "raised"
       /\ result = <<>>

\* C14: lazy execution. While a job is only built, or was built and dropped,
\* its evaluation function has not run, no source has been read and nothing
\* has been produced or written; the evaluation function has run exactly once
\* per consumption (to_df, to_arrow, persist) of the job, and each run read a
\* source.
C14_LazyExecution ==
  /\ job \in {"none", "built", "discarded"}
       => /\ calls = NoCalls
          /\ candidates = <<>>
          /\ result = <<>>
          /\ online_store = {}
          /\ materialization_intervals = <<>>
  /\ calls.evaluations = calls.consumptions
  /\ calls.reads >= calls.evaluations
  /\ job \in {"evaluated", "raised"} => outcome.call \in Consumptions /\ calls.consumptions >= 1

\* a historical retrieval job consumed twice, the second time by persist, that
\* returned rows
C14_Witness ==
  /\ plan.kind = "historical"
  /\ job = "evaluated"
  /\ outcome.call = "persist"
  /\ calls.consumptions = 2
  /\ result # <<>>

\* C15 as claimed: a consumed retrieval over two or more feature views with a
\* TTL returns; it has read every view's source once per evaluation, and every
\* row of the result has the spine's columns and the feature column.
C15_EverySourceJoined ==
  (/\ plan.kind = "historical"
   /\ plan.feature_views >= 2
   /\ ttl # NoTtl
   /\ outcome.call \in Consumptions)
    => /\ outcome.status = "returned"
       /\ job = "evaluated"
       /\ calls.reads = plan.feature_views * calls.evaluations
       /\ \A n \in 1..Len(result) :
            DOMAIN result[n].row = DOMAIN entity_df[1] \cup {"feature"}

\* C16 as claimed: the dedup is per (join keys, request timestamp). Every
\* entity row that has a candidate gets a result row of its own, carrying the
\* candidate of that entity row with the latest event timestamp.
C16_DedupPerRequestTimestamp ==
  job = "evaluated" =>
    \A i \in 1..Len(entity_df) :
      LET mine == {c \in Range(candidates) : c.matched = entity_df[i]}
      IN  mine # {} =>
            \E n \in 1..Len(result) :
              /\ result[n].matched = entity_df[i]
              /\ \A c \in mine : c.row.ts <= result[n].row.event_timestamp
              /\ \E c \in mine : /\ c.row.ts = result[n].row.event_timestamp
                                  /\ c.row.feature = result[n].row.feature

\* C17 as claimed: the timestamp column of every result row holds a request
\* timestamp the entity dataframe has for the row's entity.
C17_ResultKeyedByRequestTimestamp ==
  job = "evaluated" =>
    \A n \in 1..Len(result) :
      \E e \in Range(entity_df) :
        /\ e.join_key = result[n].row.join_key
        /\ e.event_timestamp = result[n].row.event_timestamp

\* C18 as claimed: a consumed retrieval over a feature view with no TTL
\* returns, and every source row of an entity whose event timestamp is <= a
\* request timestamp of that entity is a candidate of that entity row.
C18_NoTtlUnbounded ==
  (/\ plan.kind = "historical"
   /\ plan.feature_views = 1
   /\ ttl = NoTtl
   /\ outcome.call \in Consumptions)
    => /\ outcome.status = "returned"
       /\ job = "evaluated"
       /\ \A s \in Range(source) : \A e \in Range(entity_df) :
            (s.join_key = e.join_key /\ s.ts <= e[plan.entity_df_event_timestamp_col])
              => \E c \in Range(candidates) :
                   c.matched = e /\ c.row.ts = s.ts /\ c.row.feature = s.feature

\* C19 as claimed: a get_historical_features call whose entity dataframe has
\* no column named event_timestamp has raised, built no job and read no source.
C19_MissingTimestampColumnFails ==
  (/\ outcome.call = "get_historical_features"
   /\ DEFAULT_ENTITY_DF_EVENT_TIMESTAMP_COL \notin DOMAIN outcome.entity_df[1])
    => /\ outcome.status = "ValueError"
       /\ job = "none"
       /\ calls = NoCalls

\* C19 amended: a get_historical_features call whose entity dataframe has no
\* column named event_timestamp has raised ValueError, built no job and read no
\* source, unless the dataframe has exactly one datetime column: then the call
\* has built a job that takes that column for the request timestamp, and it
\* has read no source either.
C19_FailsUnlessOneDatetimeColumn ==
  (/\ outcome.call = "get_historical_features"
   /\ DEFAULT_ENTITY_DF_EVENT_TIMESTAMP_COL \notin DOMAIN outcome.entity_df[1])
    => LET datetime_columns == DOMAIN outcome.entity_df[1] \cap DatetimeColumns
       IN  /\ calls = NoCalls
           /\ result = <<>>
           /\ IF Cardinality(datetime_columns) = 1
              THEN /\ outcome.status = "returned"
                   /\ job \in {"built", "discarded"}
                   /\ entity_df = outcome.entity_df
                   /\ plan.entity_df_event_timestamp_col \in datetime_columns
              ELSE /\ outcome.status = "ValueError"
                   /\ job = "none"
                   /\ plan = NoPlan
                   /\ entity_df = <<>>

\* a call that raised for an entity dataframe with two datetime columns, none
\* of them named event_timestamp
C19_Witness ==
  /\ outcome.call = "get_historical_features"
  /\ outcome.status = "ValueError"
  /\ {"requested_at", "created_at"} \subseteq DOMAIN outcome.entity_df[1]
  /\ job = "none"

\* the source rows of a join key inside the window of run r
InWindow(r, key) ==
  {s \in Range(source) :
     s.join_key = key /\ window[r][1] <= s.ts /\ s.ts < window[r][2]}

\* C20: with join keys, the table pull_latest_from_table_or_query returns has
\* at most one row per join key; a key has a row exactly when the source has a
\* row of it inside [start_date, end_date), and that row is a source row of the
\* key with the greatest event timestamp inside the window.
C20_PullLatestPerKey ==
  pc[1] = "convert" =>
    /\ \A i, j \in 1..Len(table[1]) :
         table[1][i].join_key = table[1][j].join_key => i = j
    /\ \A key \in Keys :
         (InWindow(1, key) # {}) <=> (\E n \in 1..Len(table[1]) : table[1][n].join_key = key)
    /\ \A n \in 1..Len(table[1]) :
         /\ table[1][n] \in InWindow(1, table[1][n].join_key)
         /\ \A s \in InWindow(1, table[1][n].join_key) : s.ts <= table[1][n].ts

\* a pull over a window that holds two rows of one key at different instants
C20_Witness ==
  /\ pc[1] = "convert"
  /\ \E key \in Keys : \E s, t \in InWindow(1, key) : s.ts < t.ts
  /\ Len(table[1]) = 1

\* the positions of the source rows whose event timestamp lies inside
\* [start_date, end_date) of the arguments a
RowsInside(a) ==
  {i \in 1..Len(source) :
     /\ source[i][a.event_timestamp_column] >= a.start_date
     /\ source[i][a.event_timestamp_column] < a.end_date}

\* df holds, as often as the source has them, the rows at the positions inside
\* the window, each given by Row, and nothing else
HoldsEveryRow(df, inside, Row(_)) ==
  /\ Len(df) = Cardinality(inside)
  /\ \A i \in inside :
       Cardinality({n \in 1..Len(df) : df[n] = Row(i)})
         = Cardinality({j \in inside : Row(j) = Row(i)})

\* C21: pull_all_from_table_or_query performs no deduplication: the dataframe
\* of its job holds every source row whose event timestamp lies in
\* [start_date, end_date), rows of one entity and rows that share the entity
\* and the event timestamp included.
C21_PullAllKeepsEveryRow ==
  ("caller_args" \in DOMAIN plan /\ job = "evaluated") =>
    LET a == plan.caller_args
        columns == Range(a.join_key_columns) \cup Range(a.feature_name_columns)
                     \cup {a.event_timestamp_column}
        Row(i) == [c \in columns |-> source[i][c]]
    IN  HoldsEveryRow(result, RowsInside(a), Row)

\* C22: a job of pull_latest_from_table_or_query built with no join key
\* columns deduplicates nothing: its dataframe holds every source row inside
\* [start_date, end_date), each with the column DUMMY_ENTITY_ID set to
\* DUMMY_ENTITY_VAL; a job built with join key columns returns no row with
\* the dummy column.
C22_EntitylessPullKeepsEveryRow ==
  (plan.kind = "pull" /\ job = "evaluated") =>
    LET a == plan.args
        columns == Range(a.feature_name_columns) \cup {a.event_timestamp_column}
                     \cup (IF a.created_timestamp_column # NoColumn
                           THEN {a.created_timestamp_column} ELSE {})
        Row(i) == [c \in columns \cup {DUMMY_ENTITY_ID} |->
                     IF c = DUMMY_ENTITY_ID THEN DUMMY_ENTITY_VAL ELSE source[i][c]]
    IN  IF a.join_key_columns = <<>>
        THEN HoldsEveryRow(result, RowsInside(a), Row)
        ELSE \A n \in 1..Len(result) : DUMMY_ENTITY_ID \notin DOMAIN result[n]

\* an entity-less pull over a window that holds two rows of one entity at one
\* event timestamp: both came back, with the dummy column
C22_Witness ==
  /\ plan.kind = "pull"
  /\ job = "evaluated"
  /\ plan.args.join_key_columns = <<>>
  /\ \E i, j \in RowsInside(plan.args) :
       i # j /\ source[i].join_key = source[j].join_key /\ source[i].ts = source[j].ts
  /\ Len(result) = 2
  /\ \A n \in 1..2 : result[n][DUMMY_ENTITY_ID] = DUMMY_ENTITY_VAL

====
